---- MODULE Spec2Model ----
(***************************************************************************)
(* Model of discounting_book_series.py: Book, Pricing and                  *)
(* CustomerShoppingCart.                                                   *)
(*                                                                         *)
(* Book objects are references (strings naming the object); two objects    *)
(* may carry the same ISBN.  Python compares Book objects by identity      *)
(* (Book defines no __eq__), so list.remove(book) is modelled on the       *)
(* references.                                                             *)
(*                                                                         *)
(* Money: prices are integers; totals are held in hundredths of the price  *)
(* unit, so that price * percentage / 100 (line 210) is exact:             *)
(* 51.60 is 5160.                                                          *)
(***************************************************************************)
EXTENDS Integers, Sequences, FiniteSets, TLC

\* ------------------------------------------------------------------ bounds
\* longest cart drawn from CartBooks by the constructor in Spec
MaxCartLen == 3
\* longest cart of series books drawn by the constructor in SpecSeries
MaxSeriesCartLen == 8
\* longest list handed to get_discount_percentage in SpecPricing
MaxGroupLen == 6

\* ------------------------------------------------------------- Book objects
\* book1..book5 and book9 are the objects of __main__; book9b is a second
\* object with book9's ISBN, book1b a second object with book1's ISBN and
\* another price.
Book == {"book1", "book2", "book3", "book4", "book5", "book9", "book9b", "book1b"}

get_isbn(book) ==
    CASE book = "book1"  -> "ISBN-111"
      [] book = "book2"  -> "ISBN-222"
      [] book = "book3"  -> "ISBN-333"
      [] book = "book4"  -> "ISBN-444"
      [] book = "book5"  -> "ISBN-555"
      [] book = "book9"  -> "ISBN-UNKNOWN"
      [] book = "book9b" -> "ISBN-UNKNOWN"
      [] book = "book1b" -> "ISBN-111"

get_title(book) ==
    CASE book = "book1"  -> "Young Wizard - Series 1"
      [] book = "book2"  -> "Young Wizard - Series 2"
      [] book = "book3"  -> "Young Wizard - Series 3"
      [] book = "book4"  -> "Young Wizard - Series 4"
      [] book = "book5"  -> "Young Wizard - Series 5"
      [] book = "book9"  -> "XXXXXXXXX"
      [] book = "book9b" -> "XXXXXXXXX"
      [] book = "book1b" -> "Young Wizard - Series 1"

get_price(book) ==
    CASE book = "book1"  -> 8
      [] book = "book2"  -> 8
      [] book = "book3"  -> 8
      [] book = "book4"  -> 8
      [] book = "book5"  -> 8
      [] book = "book9"  -> 0
      [] book = "book9b" -> 3
      [] book = "book1b" -> 5

\* ------------------------------------------------------- Python built-ins
\* An argument is a list of Book objects or something that is not a list
\* (type(x) == list is tested on lines 75, 94, 123, 142).
List(elems) == [is_list |-> TRUE, elems |-> elems]
NotAList == [is_list |-> FALSE, elems |-> <<>>]

\* set(list)
ToSet(s) == {s[i] : i \in 1..Len(s)}

\* list.count(x)
Count(s, x) == Cardinality({i \in 1..Len(s) : s[i] = x})

\* the list of book.get_isbn() for book in books (lines 232-236)
IsbnList(books) == [i \in 1..Len(books) |-> get_isbn(books[i])]

\* a.symmetric_difference(b)
symmetric_difference(a, b) == (a \ b) \cup (b \ a)

\* list.remove(x): the list without the first occurrence of x (x is in s)
remove(s, x) ==
    LET i == CHOOSE k \in 1..Len(s) : s[k] = x /\ \A j \in 1..(k - 1) : s[j] # x
    IN  [j \in 1..(Len(s) - 1) |-> IF j < i THEN s[j] ELSE s[j + 1]]

\* the lists that hold each element of the set S once: list(S) in some order
Orderings(S) ==
    {s \in [1..Cardinality(S) -> S] : \A i, j \in 1..Cardinality(S) : s[i] = s[j] => i = j}

\* the elements of list s that are in set S, each once, in order of first
\* occurrence: one of the orders list(S) can have
RECURSIVE Distinct(_, _)
Distinct(s, S) ==
    IF s = <<>> THEN <<>>
    ELSE IF Head(s) \in S THEN <<Head(s)>> \o Distinct(Tail(s), S \ {Head(s)})
    ELSE Distinct(Tail(s), S)

\* all lists over S of length at most n
RECURSIVE ListsUpTo(_, _)
ListsUpTo(S, n) ==
    IF n = 0 THEN {<<>>}
    ELSE LET shorter == ListsUpTo(S, n - 1)
         IN  shorter \cup {Append(s, x) : s \in {t \in shorter : Len(t) = n - 1}, x \in S}

\* ---------------------------------------------------------------- Pricing
\* faulty variant: thresholds instead of exact sizes (five or more books give 25)
get_discount_percentage_threshold(set_of_books) ==
    IF set_of_books.is_list
    THEN [raised |-> "",
          value  |-> IF Len(set_of_books.elems) >= 5 THEN 25
                     ELSE IF Len(set_of_books.elems) >= 4 THEN 20
                     ELSE IF Len(set_of_books.elems) >= 3 THEN 10
                     ELSE IF Len(set_of_books.elems) >= 2 THEN 5
                     ELSE 0]
    ELSE [raised |-> "UnboundLocalError", value |-> 0]

\* Pricing.get_discount_percentage: the result is the exception raised ("" when
\* none) and the value returned.  A set_of_books that is not a list leaves
\* percentage_discount unassigned, and the return statement raises.
get_discount_percentage(set_of_books) ==
    IF set_of_books.is_list
    THEN [raised |-> "",
          value  |-> IF Len(set_of_books.elems) = 5 THEN 25
                     ELSE IF Len(set_of_books.elems) = 4 THEN 20
                     ELSE IF Len(set_of_books.elems) = 3 THEN 10
                     ELSE IF Len(set_of_books.elems) = 2 THEN 5
                     ELSE 0]
    ELSE [raised |-> "UnboundLocalError", value |-> 0]

\* ---------------------------------------------------- CustomerShoppingCart
\* the dictionary built by __init__: the last object of each ISBN wins
BuildDict(books) ==
    [isbn \in ToSet(IsbnList(books)) |->
        books[CHOOSE i \in 1..Len(books) :
                /\ get_isbn(books[i]) = isbn
                /\ \A j \in (i + 1)..Len(books) : get_isbn(books[j]) # isbn]]

\* Counter(larger_list) - Counter(smaller_list), then elements(): the keys in
\* order of first occurrence in larger_list, each repeated by its positive
\* remaining count
RECURSIVE Repeat(_, _)
Repeat(x, n) == IF n <= 0 THEN <<>> ELSE <<x>> \o Repeat(x, n - 1)

RECURSIVE Elements(_, _, _)
Elements(keys, larger_list, smaller_list) ==
    IF keys = <<>> THEN <<>>
    ELSE Repeat(Head(keys), Count(larger_list, Head(keys)) - Count(smaller_list, Head(keys)))
         \o Elements(Tail(keys), larger_list, smaller_list)

\* faulty variant: set subtraction, every copy of a subtracted id goes
subtract_list_all_copies(larger_list, smaller_list) ==
    SelectSeq(larger_list, LAMBDA x : x \notin ToSet(smaller_list))

subtract_list(larger_list, smaller_list) ==
    Elements(Distinct(larger_list, ToSet(larger_list)), larger_list, smaller_list)

\* faulty variant: each object is counted once, however often the list holds it
sum_price_once(books) ==
    LET objects == Distinct(books, ToSet(books))
    IN  IF objects = <<>> THEN 0
        ELSE LET partial[i \in 1..Len(objects)] ==
                     get_price(objects[i]) + (IF i = 1 THEN 0 ELSE partial[i - 1])
             IN  partial[Len(objects)]

\* sum of get_price() over a list of books
RECURSIVE SumPrice(_)
SumPrice(books) ==
    IF books = <<>> THEN 0 ELSE get_price(Head(books)) + SumPrice(Tail(books))

\* faulty variant: price_of_books is overwritten by each book instead of accumulated
calculate_discount_last_book(set_of_books, pricing_is_set) ==
    IF pricing_is_set
    THEN LET percentage_discount == get_discount_percentage(List(set_of_books)).value
             price_of_books == IF set_of_books = <<>> THEN 0
                               ELSE get_price(set_of_books[Len(set_of_books)])
         IN  <<price_of_books * percentage_discount, percentage_discount>>
    ELSE <<0, 0>>

\* calculate_discount: (discount_in_dollars, percentage_discount), the
\* discount in hundredths; pricing_is_set is isinstance(self.pricing, Pricing)
calculate_discount(set_of_books, pricing_is_set) ==
    IF pricing_is_set
    THEN LET percentage_discount == get_discount_percentage(List(set_of_books)).value
             price_of_books == SumPrice(set_of_books)
         IN  <<price_of_books * percentage_discount, percentage_discount>>
    ELSE <<0, 0>>

\* max_count_of_a_book, lines 238-240
MaxCountOfABook(isbn_books_in_cart) ==
    IF isbn_books_in_cart = <<>> THEN 0
    ELSE CHOOSE n \in 1..Len(isbn_books_in_cart) :
           /\ \E x \in ToSet(isbn_books_in_cart) : Count(isbn_books_in_cart, x) = n
           /\ \A x \in ToSet(isbn_books_in_cart) : Count(isbn_books_in_cart, x) <= n

\* lines 250-256: each unknown book is reported, then removed from the cart;
\* list.remove raises ValueError when the object is not in the list
RECURSIVE RemoveUnknown(_, _)
RemoveUnknown(books, unknown_book_list) ==
    IF unknown_book_list = <<>> THEN [books |-> books, printed |-> <<>>, raised |-> ""]
    ELSE LET unknown_book == Head(unknown_book_list)
             line == <<get_title(unknown_book), get_isbn(unknown_book)>>
         IN  IF unknown_book \notin ToSet(books)
             THEN [books |-> books, printed |-> <<line>>, raised |-> "ValueError"]
             ELSE LET rest == RemoveUnknown(remove(books, unknown_book), Tail(unknown_book_list))
                  IN  [books |-> rest.books, printed |-> <<line>> \o rest.printed,
                       raised |-> rest.raised]

\* faulty variant: the grouping is not subtracted from the cart between rounds
RECURSIVE SplitBooks_no_subtract(_, _, _)
SplitBooks_no_subtract(isbn_series_of_books, isbn_books_in_cart, rounds) ==
    IF rounds = 0 THEN <<>>
    ELSE <<Distinct(isbn_series_of_books,
                    ToSet(isbn_series_of_books) \cap ToSet(isbn_books_in_cart))>>
         \o SplitBooks_no_subtract(isbn_series_of_books, isbn_books_in_cart, rounds - 1)

\* lines 264-271: rounds of the partition loop
RECURSIVE SplitBooks(_, _, _)
SplitBooks(isbn_series_of_books, isbn_books_in_cart, rounds) ==
    IF rounds = 0 THEN <<>>
    ELSE LET isbn_extracted_combination ==
                 Distinct(isbn_series_of_books,
                          ToSet(isbn_series_of_books) \cap ToSet(isbn_books_in_cart))
         IN  <<isbn_extracted_combination>>
             \o SplitBooks(isbn_series_of_books,
                           subtract_list(isbn_books_in_cart, isbn_extracted_combination),
                           rounds - 1)

\* lines 277-285: the price of the groupings, in hundredths
RECURSIVE PriceGroupings(_, _, _)
PriceGroupings(split_books_isbn_to_discount, dict, pricing_is_set) ==
    IF split_books_isbn_to_discount = <<>> THEN 0
    ELSE LET set_of_books == [i \in 1..Len(Head(split_books_isbn_to_discount)) |->
                                 dict[Head(split_books_isbn_to_discount)[i]]]
         IN  100 * SumPrice(set_of_books) - calculate_discount(set_of_books, pricing_is_set)[1]
             + PriceGroupings(Tail(split_books_isbn_to_discount), dict, pricing_is_set)

\* ids of the cart that lines 245-248 treat as unknown: the symmetric
\* difference of cart and series ids when it lies within the cart's ids,
\* nothing otherwise (line 261, "All books in list are valid!")
UnknownIsbns(books, series) ==
    IF series.is_set /\ Len(series.elems) # 0
    THEN LET isbn_books_in_cart == ToSet(IsbnList(books))
             isbn_series_of_books == ToSet(IsbnList(series.elems))
             unknown == symmetric_difference(isbn_books_in_cart, isbn_series_of_books)
         IN  IF unknown \subseteq isbn_books_in_cart THEN unknown ELSE {}
    ELSE {}

\* calculate_total_price on a cart holding books, with dictionary dict and
\* the series attribute series; unknown_isbn_list is the order in which
\* list(set) on line 245 yields the unknown ids.  The result is the
\* exception raised ("" when none), the total returned (hundredths), the
\* cart's list afterwards, the diagnostics printed and the groupings.
TotalPrice(books, dict, series, pricing_is_set, unknown_isbn_list) ==
    IF ~series.is_set
    THEN [raised |-> "AttributeError", total |-> 0, books |-> books,
          printed |-> <<>>, split |-> <<>>]
    ELSE IF Len(series.elems) # 0
    THEN LET isbn_series_of_books == IsbnList(series.elems)
             isbn_books_in_cart == IsbnList(books)
             max_count_of_a_book == MaxCountOfABook(isbn_books_in_cart)
             unknown_book_list == [i \in 1..Len(unknown_isbn_list) |-> dict[unknown_isbn_list[i]]]
             removed == RemoveUnknown(books, unknown_book_list)
             split_books_isbn_to_discount ==
                 SplitBooks(isbn_series_of_books, isbn_books_in_cart, max_count_of_a_book)
         IN  IF removed.raised # ""
             THEN [raised |-> removed.raised, total |-> 0, books |-> removed.books,
                   printed |-> removed.printed, split |-> <<>>]
             ELSE [raised |-> "",
                   total |-> PriceGroupings(split_books_isbn_to_discount, dict, pricing_is_set),
                   books |-> removed.books, printed |-> removed.printed,
                   split |-> split_books_isbn_to_discount]
    ELSE [raised |-> "", total |-> 100 * SumPrice(books), books |-> books,
          printed |-> <<>>, split |-> <<>>]

\* ------------------------------------------------------------------ inputs
\* the series of __main__ (line 317)
series_of_books_main == <<"book1", "book2", "book3", "book4", "book5">>

\* the carts of __main__: lines 320, 325 and 330
Scenario1 == <<"book1", "book2", "book3">>
Scenario2 == <<"book1", "book2", "book3", "book4", "book5", "book1", "book3", "book5">>
list_of_books == <<"book1", "book2", "book3", "book4", "book5", "book1", "book3", "book5",
                   "book1", "book2", "book3", "book1", "book9">>

\* the books the short carts are drawn from
CartBooks == {"book1", "book9", "book9b", "book1b"}

\* carts of copies of the series' books only, up to MaxSeriesCartLen books:
\* c[i] copies of the i-th book of the series
SeriesCarts ==
    LET Copies(c, i) == Repeat(series_of_books_main[i], c[i])
    IN  {Copies(c, 1) \o Copies(c, 2) \o Copies(c, 3) \o Copies(c, 4) \o Copies(c, 5) :
           c \in {d \in [1..5 -> 0..MaxSeriesCartLen] :
                    d[1] + d[2] + d[3] + d[4] + d[5] <= MaxSeriesCartLen}}

\* arguments of the constructor
CartInputs ==
    {List(s) : s \in ListsUpTo(CartBooks, MaxCartLen) \cup SeriesCarts
                     \cup {Scenario1, Scenario2, list_of_books}}
    \cup {NotAList}

\* arguments of set_series_of_books
SeriesInputs ==
    {List(series_of_books_main), List(<<"book1">>), List(<<>>), NotAList}

\* arguments of get_discount_percentage
GroupInputs == {List(s) : s \in ListsUpTo({"book1", "book2"}, MaxGroupLen)} \cup {NotAList}

\* ------------------------------------------------------------------- state
VARIABLES
    cart_exists,         \* a CustomerShoppingCart instance exists
    books_in_cart,       \* self.books_in_cart (the caller's list object too)
    dict_books_in_cart,  \* self.dict_books_in_cart
    series_of_books,     \* self.series_of_books: is_set is FALSE until assigned
    pricing,             \* self.pricing: is_set is FALSE until assigned
    constructed,         \* the argument the constructor was called with
    calculated,          \* calculate_total_price has been called on the cart
    op,                  \* the last operation called
    arg,                 \* its argument
    raised,              \* the exception it raised, "" when it returned
    returned,            \* the value it returned
    printed,             \* the diagnostics it printed: <<title, isbn>> each
    split,               \* split_books_isbn_to_discount of the last call
    cart_before,         \* books_in_cart when the last call began
    first,               \* the last call was the cart's first calculate_total_price
    prev                 \* outcome of the calculate_total_price call right before
                         \* the last one, when the last operation but one was one

vars == <<cart_exists, books_in_cart, dict_books_in_cart, series_of_books, pricing,
          constructed, calculated, op, arg, raised, returned, printed, split,
          cart_before, first, prev>>

NoPrev == [valid |-> FALSE, raised |-> "", returned |-> 0]

Init ==
    /\ cart_exists = FALSE
    /\ books_in_cart = <<>>
    /\ dict_books_in_cart = <<>>
    /\ series_of_books = [is_set |-> FALSE, elems |-> <<>>]
    /\ pricing = [is_set |-> FALSE, series_of_books |-> <<>>]
    /\ constructed = NotAList
    /\ calculated = FALSE
    /\ op = "none"
    /\ arg = NotAList
    /\ raised = ""
    /\ returned = 0
    /\ printed = <<>>
    /\ split = <<>>
    /\ cart_before = <<>>
    /\ first = FALSE
    /\ prev = NoPrev

\* faulty variant: the constructor does not test the length of the list
Construct_any_list(books) ==
    /\ op = "none"
    /\ op' = "CustomerShoppingCart"
    /\ arg' = books
    /\ constructed' = books
    /\ IF books.is_list
       THEN /\ cart_exists' = TRUE
            /\ books_in_cart' = books.elems
            /\ dict_books_in_cart' = BuildDict(books.elems)
            /\ raised' = ""
       ELSE /\ cart_exists' = FALSE
            /\ raised' = "Exception: Shopping Cart is Empty!"
            /\ UNCHANGED <<books_in_cart, dict_books_in_cart>>
    /\ UNCHANGED <<series_of_books, pricing, calculated, returned, printed, split,
                   cart_before, first, prev>>

\* CustomerShoppingCart(books_in_cart), lines 120-132
Construct(books) ==
    /\ op = "none"
    /\ op' = "CustomerShoppingCart"
    /\ arg' = books
    /\ constructed' = books
    /\ IF books.is_list /\ Len(books.elems) # 0
       THEN /\ cart_exists' = TRUE
            /\ books_in_cart' = books.elems
            /\ dict_books_in_cart' = BuildDict(books.elems)
            /\ raised' = ""
       ELSE /\ cart_exists' = FALSE
            /\ raised' = "Exception: Shopping Cart is Empty!"
            /\ UNCHANGED <<books_in_cart, dict_books_in_cart>>
    /\ UNCHANGED <<series_of_books, pricing, calculated, returned, printed, split,
                   cart_before, first, prev>>

\* set_series_of_books(series), lines 134-147
set_series_of_books(series) ==
    /\ cart_exists
    /\ op' = "set_series_of_books"
    /\ arg' = series
    /\ IF series.is_list
       THEN /\ series_of_books' = [is_set |-> TRUE, elems |-> series.elems]
            /\ pricing' = [is_set |-> TRUE, series_of_books |-> series.elems]
       ELSE /\ series_of_books' = [is_set |-> TRUE, elems |-> <<>>]
            /\ UNCHANGED pricing
    /\ raised' = ""
    /\ returned' = 0
    /\ printed' = <<>>
    /\ split' = <<>>
    /\ cart_before' = books_in_cart
    /\ first' = FALSE
    /\ prev' = NoPrev
    /\ UNCHANGED <<cart_exists, books_in_cart, dict_books_in_cart, constructed, calculated>>

\* calculate_total_price(), lines 216-295
calculate_total_price ==
    /\ cart_exists
    /\ \E unknown_isbn_list \in Orderings(UnknownIsbns(books_in_cart, series_of_books)) :
         LET r == TotalPrice(books_in_cart, dict_books_in_cart, series_of_books,
                             pricing.is_set, unknown_isbn_list)
         IN  /\ raised' = r.raised
             /\ returned' = r.total
             /\ books_in_cart' = r.books
             /\ printed' = r.printed
             /\ split' = r.split
    /\ op' = "calculate_total_price"
    /\ arg' = NotAList
    /\ cart_before' = books_in_cart
    /\ first' = ~calculated
    /\ calculated' = TRUE
    /\ prev' = IF op = "calculate_total_price"
               THEN [valid |-> TRUE, raised |-> raised, returned |-> returned]
               ELSE NoPrev
    /\ UNCHANGED <<cart_exists, dict_books_in_cart, series_of_books, pricing, constructed>>

\* Pricing.get_discount_percentage(set_of_books), lines 80-108
GetDiscountPercentage(set_of_books) ==
    /\ ~cart_exists
    /\ op \in {"none", "get_discount_percentage"}
    /\ op' = "get_discount_percentage"
    /\ arg' = set_of_books
    /\ raised' = get_discount_percentage(set_of_books).raised
    /\ returned' = get_discount_percentage(set_of_books).value
    /\ UNCHANGED <<cart_exists, books_in_cart, dict_books_in_cart, series_of_books, pricing,
                   constructed, calculated, printed, split, cart_before, first, prev>>

Next ==
    \/ \E books \in CartInputs : Construct(books)
    \/ \E series \in SeriesInputs : set_series_of_books(series)
    \/ calculate_total_price

Spec == Init /\ [][Next]_vars

NextPricing == \E set_of_books \in GroupInputs : GetDiscountPercentage(set_of_books)

SpecPricing == Init /\ [][NextPricing]_vars

\* ================================================================== claims
\* the discount table: 2 -> 5, 3 -> 10, 4 -> 20, 5 -> 25, anything else -> 0
DiscountTable(n) ==
    CASE n = 2 -> 5 [] n = 3 -> 10 [] n = 4 -> 20 [] n = 5 -> 25 [] OTHER -> 0

\* sum of the function f over a finite set S of its domain
RECURSIVE SumOver(_, _)
SumOver(S, f) ==
    IF S = {} THEN 0 ELSE LET x == CHOOSE y \in S : TRUE IN f[x] + SumOver(S \ {x}, f)

\* sum of the unit prices of every item of a list, in hundredths
PriceSum(books) ==
    SumOver(1..Len(books), [i \in 1..Len(books) |-> 100 * get_price(books[i])])

IsbnsOf(books) == {get_isbn(books[i]) : i \in 1..Len(books)}
Copies(books, isbn) == Cardinality({i \in 1..Len(books) : get_isbn(books[i]) = isbn})
MaxCopies(books) ==
    CHOOSE n \in 0..Len(books) :
        /\ \A x \in IsbnsOf(books) : Copies(books, x) <= n
        /\ n > 0 => \E x \in IsbnsOf(books) : Copies(books, x) = n

\* all copies of an id in the list share one price
SharesPrice(books) ==
    \A i, j \in 1..Len(books) :
        get_isbn(books[i]) = get_isbn(books[j]) => get_price(books[i]) = get_price(books[j])

\* the last operation was calculate_total_price with a non-empty series attached
CalculatedWithSeries ==
    op = "calculate_total_price" /\ series_of_books.is_set /\ Len(series_of_books.elems) # 0

\* subtotal_r - subtotal_r * pct(|G_r|) / 100 (hundredths), G_r the series ids
\* with at least r copies in the list
RoundTotal(books, series, r) ==
    LET G == {x \in IsbnsOf(series) : Copies(books, x) >= r}
        subtotal == SumOver(G, [x \in G |->
                        get_price(books[CHOOSE i \in 1..Len(books) : get_isbn(books[i]) = x])])
    IN  100 * subtotal - subtotal * DiscountTable(Cardinality(G))

ExpectedTotal(books, series) ==
    SumOver(1..MaxCopies(books), [r \in 1..MaxCopies(books) |-> RoundTotal(books, series, r)])

\* C1: with a non-empty series attached and all copies of an id sharing one
\* price, calculate_total_price returns the sum over the rounds
\* r = 1..max_copies of subtotal_r - subtotal_r * pct(|G_r|) / 100 (items whose
\* id is not in the series add nothing); the first call on a cart always
\* returns; the carts of lines 325 and 320 total 51.60 and 21.60.
C1_TotalIsSumOfRounds ==
    (CalculatedWithSeries /\ SharesPrice(cart_before)) =>
        /\ first => raised = ""
        /\ raised = "" => returned = ExpectedTotal(cart_before, series_of_books.elems)
        /\ (first /\ series_of_books.elems = series_of_books_main /\ cart_before = Scenario2)
              => returned = 5160
        /\ (first /\ series_of_books.elems = series_of_books_main /\ cart_before = Scenario1)
              => returned = 2160

C1_Witness ==
    /\ CalculatedWithSeries
    /\ raised = ""
    /\ cart_before = list_of_books
    /\ series_of_books.elems = series_of_books_main
    /\ printed = <<(<<"XXXXXXXXX", "ISBN-UNKNOWN">>)>>
    /\ returned = 3000 + 2560 + 1520 + 800

\* C2: get_discount_percentage of a list returns 5, 10, 20, 25 for sizes 2, 3,
\* 4, 5 and 0 for every other size; the result is one of 0, 5, 10, 20, 25.
C2_ExactMatchTable ==
    (op = "get_discount_percentage" /\ arg.is_list) =>
        /\ raised = ""
        /\ Len(arg.elems) = 2 => returned = 5
        /\ Len(arg.elems) = 3 => returned = 10
        /\ Len(arg.elems) = 4 => returned = 20
        /\ Len(arg.elems) = 5 => returned = 25
        /\ Len(arg.elems) \notin {2, 3, 4, 5} => returned = 0
        /\ returned \in {0, 5, 10, 20, 25}

C2_Witness ==
    op = "get_discount_percentage" /\ arg.is_list /\ Len(arg.elems) >= 6 /\ returned = 0

\* C3: the first calculate_total_price of a cart whose series is the empty
\* list returns the sum of the unit prices of all the items it was
\* constructed with; the cart of line 336 totals 64.00.
C3_EmptySeriesSumsAll ==
    (op = "calculate_total_price" /\ first /\ series_of_books.is_set
        /\ series_of_books.elems = <<>>) =>
        /\ raised = ""
        /\ returned = PriceSum(constructed.elems)
        /\ constructed.elems = Scenario2 => returned = 6400

C3_Witness ==
    /\ op = "calculate_total_price" /\ first
    /\ series_of_books.is_set /\ series_of_books.elems = <<>>
    /\ constructed.elems = <<"book1", "book9b", "book1">>
    /\ returned = 1900

\* C4: calculate_total_price on a cart on which set_series_of_books was never
\* called returns the sum of the unit prices of all cart items.
C4_AbsentSeriesSumsAll ==
    (op = "calculate_total_price" /\ ~series_of_books.is_set) =>
        raised = "" /\ returned = PriceSum(cart_before)

\* C5: with a non-empty series attached, one calculate_total_price prints
\* exactly one diagnostic, naming title and id, for each id of the cart that is
\* not in the series, and none for an id of the series.
C5_OneDiagnosticPerUnknownId ==
    CalculatedWithSeries =>
        LET unknown == IsbnsOf(cart_before) \ IsbnsOf(series_of_books.elems)
        IN  /\ Len(printed) = Cardinality(unknown)
            /\ \A x \in unknown :
                 \E i \in 1..Len(printed) :
                    /\ printed[i][2] = x
                    /\ \E j \in 1..Len(cart_before) :
                         get_isbn(cart_before[j]) = x /\ get_title(cart_before[j]) = printed[i][1]

\* C6: a calculate_total_price that follows a calculate_total_price which
\* returned, with no set_series_of_books in between, returns the same total.
C6_SecondCallSameTotal ==
    (op = "calculate_total_price" /\ series_of_books.is_set /\ prev.valid /\ prev.raised = "") =>
        raised = "" /\ returned = prev.returned

\* C7: the constructor called with an empty sequence raises the empty-cart
\* exception and leaves no cart, so no other operation ever runs; called with
\* a non-empty list it succeeds.
C7_EmptyCartRejected ==
    /\ (op # "none" /\ constructed.is_list /\ constructed.elems = <<>>) =>
          /\ ~cart_exists
          /\ op = "CustomerShoppingCart"
          /\ raised = "Exception: Shopping Cart is Empty!"
    /\ (op = "CustomerShoppingCart" /\ constructed.is_list /\ constructed.elems # <<>>) =>
          cart_exists /\ raised = "" /\ books_in_cart = constructed.elems
    /\ op \in {"set_series_of_books", "calculate_total_price"} =>
          cart_exists /\ constructed.is_list /\ constructed.elems # <<>>

C7_Witness ==
    /\ op = "CustomerShoppingCart" /\ constructed = List(<<>>)
    /\ ~cart_exists /\ raised = "Exception: Shopping Cart is Empty!"

\* C8: with a non-empty series attached, every grouping holds only series ids,
\* each at most once, and over all groupings each series id appears exactly as
\* often as it has copies in the cart.
C8_GroupingsPartitionCart ==
    (CalculatedWithSeries /\ raised = "") =>
        /\ \A g \in 1..Len(split) :
             /\ ToSet(split[g]) \subseteq IsbnsOf(series_of_books.elems)
             /\ \A i, j \in 1..Len(split[g]) : split[g][i] = split[g][j] => i = j
        /\ \A x \in IsbnsOf(series_of_books.elems) :
             SumOver(1..Len(split), [g \in 1..Len(split) |-> Count(split[g], x)])
                 = Copies(cart_before, x)

C8_Witness ==
    /\ CalculatedWithSeries /\ raised = ""
    /\ cart_before = Scenario2
    /\ Len(split) = 2 /\ Len(split[1]) = 5 /\ Len(split[2]) = 3

\* C9: the cart's list always holds the items it was constructed with, so a
\* calculate_total_price with the empty series returns the sum of the prices
\* of all the constructed items.
C9_CartUnchanged ==
    cart_exists =>
        /\ books_in_cart = constructed.elems
        /\ (op = "calculate_total_price" /\ raised = "" /\ series_of_books.elems = <<>>)
              => returned = PriceSum(constructed.elems)

\* the cheapest price (hundredths) of any split of the copies left, copies[x]
\* of each id x, into groupings holding at most one copy per id, each of n
\* books priced n * price less the table's discount
RECURSIVE BestSplit(_, _)
BestSplit(copies, price) ==
    LET left == {x \in DOMAIN copies : copies[x] > 0}
    IN  IF left = {} THEN 0
        ELSE LET x0 == CHOOSE x \in left : TRUE
                 Cost(S) ==
                     LET n == Cardinality(S) + 1
                     IN  100 * n * price - n * price * DiscountTable(n)
                         + BestSplit([x \in DOMAIN copies |->
                                        IF x \in S \cup {x0} THEN copies[x] - 1 ELSE copies[x]],
                                     price)
                 costs == {Cost(S) : S \in SUBSET (left \ {x0})}
             IN  CHOOSE c \in costs : \A d \in costs : c <= d

\* the last operation was calculate_total_price, returning, on a cart of
\* equally priced books with the 5-book series attached
EquallyPricedWithSeries ==
    /\ CalculatedWithSeries /\ raised = ""
    /\ series_of_books.elems = series_of_books_main
    /\ \A i, j \in 1..Len(cart_before) :
         get_price(cart_before[i]) = get_price(cart_before[j])

BestTotal ==
    BestSplit([x \in IsbnsOf(series_of_books.elems) |-> Copies(cart_before, x)],
              get_price(cart_before[1]))

\* C10 as stated: for a cart of equally priced books and the 5-book series the
\* total is no higher than that of any other split into groupings.
C10_TotalIsMinimal ==
    EquallyPricedWithSeries => returned <= BestTotal

\* C10 amended: the same, for carts whose groupings do not include both a
\* grouping of 5 and a grouping of 3 books.
C10_MinimalUnlessFiveAndThree ==
    (/\ EquallyPricedWithSeries
     /\ ~(\E g, h \in 1..Len(split) : Len(split[g]) = 5 /\ Len(split[h]) = 3))
        => returned <= BestTotal

C10_Witness ==
    /\ EquallyPricedWithSeries
    /\ \E g, h \in 1..Len(split) : Len(split[g]) = 5 /\ Len(split[h]) = 4
    /\ returned = BestTotal

====
